---- MODULE Spec2Model ----
(***************************************************************************)
(* Model of AdvancedPDFCompressor (compress_pdf_advanced.py): the sentence *)
(* segmenter, the term-frequency scorer, the sentence ranker, the          *)
(* selector/reconstructor and the budget controller.                       *)
(*                                                                         *)
(* A text is a sequence of one-character strings.  A real number the code  *)
(* computes (a normalised frequency, a score, a ratio) is the exact        *)
(* rational <<numerator, denominator>> with a positive denominator; the    *)
(* code's binary floating point rounding is not modelled.                  *)
(***************************************************************************)
EXTENDS Integers, Sequences, FiniteSets

VARIABLES
    max_tokens,         \* self.max_tokens
    compression_ratio,  \* self.compression_ratio, a rational <<num, den>>
    pages,              \* the page texts of the PDF at pdf_path
    text,               \* the text handed to extractive_summarize directly
    pc,                 \* "idle", "returned" or "raised"
    result              \* what the last call computed

vars == <<max_tokens, compression_ratio, pages, text, pc, result>>

(***************************************************************************)
(* Bounds of the model.                                                    *)
(***************************************************************************)
\* longest generated text, in chunks of Vocabulary
MaxChunks == 3
\* the ratios of a direct call are k / RatioDen, k in 1..RatioDen
RatioDen == 4
\* max_tokens ranges over 1..MaxBudget in the compress specification
MaxBudget == 2
\* compression_ratio ranges over k / CrDen, k in 1..CrDen
CrDen == 3

(***************************************************************************)
(* Characters.                                                             *)
(***************************************************************************)
UpperCase ==
    <<"A", "B", "C", "D", "E", "F", "G", "H", "I", "J", "K", "L", "M",
      "N", "O", "P", "Q", "R", "S", "T", "U", "V", "W", "X", "Y", "Z">>
LowerCase ==
    <<"a", "b", "c", "d", "e", "f", "g", "h", "i", "j", "k", "l", "m",
      "n", "o", "p", "q", "r", "s", "t", "u", "v", "w", "x", "y", "z">>
Digits == {"0", "1", "2", "3", "4", "5", "6", "7", "8", "9"}

Range(s) == {s[k] : k \in DOMAIN s}

\* str.lower() on one character
LowerChar(c) ==
    IF \E k \in DOMAIN UpperCase : UpperCase[k] = c
    THEN LowerCase[CHOOSE k \in DOMAIN UpperCase : UpperCase[k] = c]
    ELSE c

\* str.lower()
lower(s) == [k \in DOMAIN s |-> LowerChar(s[k])]

\* \s of the regular expressions, and the characters str.strip() removes
IsSpace(c) == c \in {" ", "\n", "\t", "\r"}

\* \w
IsWordChar(c) == c \in Range(UpperCase) \cup Range(LowerCase) \cup Digits \cup {"_"}

\* \d
IsDigit(c) == c \in Digits

\* [.!?]
IsTerminal(c) == c \in {".", "!", "?"}

Max(a, b) == IF a >= b THEN a ELSE b
Min(a, b) == IF a <= b THEN a ELSE b

RECURSIVE Concat(_)
\* ''.join(parts)
Concat(parts) ==
    IF parts = <<>> THEN <<>> ELSE Head(parts) \o Concat(Tail(parts))

(***************************************************************************)
(* estimate_tokens                                                         *)
(***************************************************************************)
estimate_tokens(s) == Len(s) \div 4

(***************************************************************************)
(* sentence_tokenize                                                       *)
(***************************************************************************)
RECURSIVE SkipSpaces(_, _)
\* the end of the \s+ match that starts at position i: the first position
\* after i that holds no whitespace
SkipSpaces(s, i) ==
    IF i <= Len(s) /\ IsSpace(s[i]) THEN SkipSpaces(s, i + 1) ELSE i

RECURSIVE SplitFrom(_, _, _)
\* re.split(r'(?<=[.!?])\s+', s): the fragments from `start` on, scanning at i
SplitFrom(s, i, start) ==
    IF i > Len(s) THEN <<SubSeq(s, start, Len(s))>>
    ELSE IF i > 1 /\ IsTerminal(s[i - 1]) /\ IsSpace(s[i])
         THEN LET j == SkipSpaces(s, i)
              IN  <<SubSeq(s, start, i - 1)>> \o SplitFrom(s, j, j)
         ELSE SplitFrom(s, i + 1, start)

RECURSIVE LStrip(_)
LStrip(s) == IF s # <<>> /\ IsSpace(Head(s)) THEN LStrip(Tail(s)) ELSE s

RECURSIVE RStrip(_)
RStrip(s) ==
    IF s # <<>> /\ IsSpace(s[Len(s)]) THEN RStrip(SubSeq(s, 1, Len(s) - 1)) ELSE s

\* str.strip()
strip(s) == RStrip(LStrip(s))

NonEmpty(s) == s # <<>>

sentence_tokenize(s) ==
    LET fragments == SplitFrom(s, 1, 1)
        stripped  == [k \in DOMAIN fragments |-> strip(fragments[k])]
    IN  SelectSeq(stripped, NonEmpty)

(***************************************************************************)
(* calculate_sentence_scores                                               *)
(***************************************************************************)
stop_words ==
    { <<"t", "h", "e">>, <<"a">>, <<"a", "n">>,
      <<"a", "n", "d">>, <<"o", "r">>, <<"b", "u", "t">>,
      <<"i", "n">>, <<"o", "n">>, <<"a", "t">>,
      <<"t", "o">>, <<"f", "o", "r">>, <<"o", "f">>,
      <<"w", "i", "t", "h">>, <<"b", "y">>, <<"f", "r", "o", "m">>,
      <<"i", "s">>, <<"w", "a", "s">>, <<"a", "r", "e">>,
      <<"w", "e", "r", "e">>, <<"b", "e">>, <<"b", "e", "e", "n">>,
      <<"b", "e", "i", "n", "g">>, <<"h", "a", "v", "e">>, <<"h", "a", "s">>,
      <<"h", "a", "d">> }

RECURSIVE WordsFrom(_, _, _)
\* re.findall(r'\b\w+\b', s): the maximal runs of word characters; `cur` is
\* the run being read at position i
WordsFrom(s, i, cur) ==
    IF i > Len(s) THEN (IF cur = <<>> THEN <<>> ELSE <<cur>>)
    ELSE IF IsWordChar(s[i]) THEN WordsFrom(s, i + 1, Append(cur, s[i]))
         ELSE (IF cur = <<>> THEN <<>> ELSE <<cur>>) \o WordsFrom(s, i + 1, <<>>)

findall_words(s) == WordsFrom(s, 1, <<>>)

\* line 59: the words that enter the frequency table
Counted(w) == w \notin stop_words /\ Len(w) > 2

\* Counter(words)[w]
CountOf(w, words) == Cardinality({k \in DOMAIN words : words[k] = w})

\* max(word_freq.values()) if word_freq else 1
MaxFreq(words) ==
    IF words = <<>> THEN 1
    ELSE LET counts == {CountOf(w, words) : w \in Range(words)}
         IN  CHOOSE m \in counts : \A c \in counts : c <= m

RECURSIVE SumFreq(_, _)
\* lines 74-76: the sum of the counts of the sentence's words that are in the
\* table (each is divided by max_freq, the score's denominator)
SumFreq(ws, words) ==
    IF ws = <<>> THEN 0
    ELSE (IF Head(ws) \in Range(words) THEN CountOf(Head(ws), words) ELSE 0)
         + SumFreq(Tail(ws), words)

\* a / b < c / d, a / b <= c / d and a / b = c / d for positive denominators
RatLess(x, y) == x[1] * y[2] < y[1] * x[2]
RatLeq(x, y) == x[1] * y[2] <= y[1] * x[2]
RatEq(x, y) == x[1] * y[2] = y[1] * x[2]

\* lines 78-80, for the sentence at position i of n (the code's index is i - 1)
PositionalBonus(score, i, n) ==
    IF i - 1 < 3 \/ i - 1 >= n - 3
    THEN <<score[1] * 12, score[2] * 10>>
    ELSE score

\* variant: no bonus for digits
DigitBonus_None(score, sentence) == score

\* lines 82-84
DigitBonus(score, sentence) ==
    IF \E k \in DOMAIN sentence : IsDigit(sentence[k])
    THEN <<score[1] * 11, score[2] * 10>>
    ELSE score

\* sentence_scores, keyed by the position of the sentence (the code's i + 1)
calculate_sentence_scores(sentences) ==
    LET n        == Len(sentences)
        found    == [k \in DOMAIN sentences |-> findall_words(lower(sentences[k]))]
        words    == SelectSeq(Concat(found), Counted)
        max_freq == MaxFreq(words)
        base(i)  == <<SumFreq(found[i], words), max_freq>>
    IN  [i \in DOMAIN sentences |->
            DigitBonus(PositionalBonus(base(i), i, n), sentences[i])]

(***************************************************************************)
(* extractive_summarize                                                    *)
(***************************************************************************)
\* variant: without the floor of one sentence
num_sentences_NoFloor(n, ratio) == (n * ratio[1]) \div ratio[2]

\* variant: the ratio taken as the fraction of sentences to drop
num_sentences_Dropped(n, ratio) == Max(1, n - ((n * ratio[1]) \div ratio[2]))

\* line 106: max(1, int(len(sentences) * target_ratio))
num_sentences(n, ratio) == Max(1, (n * ratio[1]) \div ratio[2])

\* variant: an index goes before the ranked indices of the same score
InsertByScore_TiesFirst(ranked, i, scores) ==
    LET below == {k \in DOMAIN ranked : RatLeq(scores[ranked[k]], scores[i])}
        pos   == IF below = {} THEN Len(ranked) + 1
                 ELSE CHOOSE k \in below : \A m \in below : k <= m
    IN  SubSeq(ranked, 1, pos - 1) \o <<i>> \o SubSeq(ranked, pos, Len(ranked))

\* one step of the stable descending sort of line 107: index i goes behind
\* every index already ranked whose score is not smaller
InsertByScore(ranked, i, scores) ==
    LET below == {k \in DOMAIN ranked : RatLess(scores[ranked[k]], scores[i])}
        pos   == IF below = {} THEN Len(ranked) + 1
                 ELSE CHOOSE k \in below : \A m \in below : k <= m
    IN  SubSeq(ranked, 1, pos - 1) \o <<i>> \o SubSeq(ranked, pos, Len(ranked))

RECURSIVE SortedByScore(_, _)
\* sorted(scores, key=scores.get, reverse=True) over the keys 1..n, which the
\* dict holds in insertion order
SortedByScore(scores, n) ==
    IF n = 0 THEN <<>>
    ELSE InsertByScore(SortedByScore(scores, n - 1), n, scores)

RECURSIVE InsertAscending(_, _)
InsertAscending(s, x) ==
    IF s = <<>> THEN <<x>>
    ELSE IF x < Head(s) THEN <<x>> \o s
         ELSE <<Head(s)>> \o InsertAscending(Tail(s), x)

RECURSIVE SortAscendingFrom(_, _)
SortAscendingFrom(s, acc) ==
    IF s = <<>> THEN acc
    ELSE SortAscendingFrom(Tail(s), InsertAscending(acc, Head(s)))

\* variant: the selection is left in score order
SortAscending_Unsorted(s) == s

\* line 110: top_indices.sort()
SortAscending(s) == SortAscendingFrom(s, <<>>)

\* variant: joined without a separator
JoinSpace_NoSeparator(parts) == Concat(parts)

RECURSIVE JoinSpace(_)
\* line 113: ' '.join(parts)
JoinSpace(parts) ==
    IF parts = <<>> THEN <<>>
    ELSE IF Len(parts) = 1 THEN Head(parts)
         ELSE Head(parts) \o <<" ">> \o JoinSpace(Tail(parts))

\* the locals of one call of extractive_summarize, and the summary it returns
extractive_summarize(s, target_ratio) ==
    LET sentences == sentence_tokenize(s)
    IN  IF sentences = <<>>
        THEN [text |-> s, target_ratio |-> target_ratio, sentences |-> <<>>,
              scores |-> <<>>, num_sentences |-> 0, ranked |-> <<>>,
              top_indices |-> <<>>, summary |-> s]
        ELSE LET scores == calculate_sentence_scores(sentences)
                 num    == num_sentences(Len(sentences), target_ratio)
                 ranked == SortedByScore(scores, Len(sentences))
                 top    == SortAscending(SubSeq(ranked, 1, Min(num, Len(ranked))))
             IN  [text |-> s, target_ratio |-> target_ratio,
                  sentences |-> sentences, scores |-> scores,
                  num_sentences |-> num, ranked |-> ranked, top_indices |-> top,
                  summary |-> JoinSpace([k \in DOMAIN top |-> sentences[top[k]]])]

(***************************************************************************)
(* compress                                                                *)
(***************************************************************************)
RECURSIVE extract_text(_)
\* lines 28-33: every page's text, each followed by a newline
extract_text(pgs) ==
    IF pgs = <<>> THEN <<>> ELSE Head(pgs) \o <<"\n">> \o extract_text(Tail(pgs))

RECURSIVE CollapseSpaces(_, _)
\* line 124: re.sub(r'\s+', ' ', s), from position i on
CollapseSpaces(s, i) ==
    IF i > Len(s) THEN <<>>
    ELSE IF IsSpace(s[i]) THEN <<" ">> \o CollapseSpaces(s, SkipSpaces(s, i))
         ELSE <<s[i]>> \o CollapseSpaces(s, i + 1)

RECURSIVE RunEnd(_, _, _)
\* the first position after i that does not hold c
RunEnd(s, i, c) == IF i <= Len(s) /\ s[i] = c THEN RunEnd(s, i + 1, c) ELSE i

RECURSIVE CollapseRuns(_, _)
\* line 125: re.sub(r'(.)\1{4,}', r'\1\1', s), from position i on; `.` matches
\* no newline
CollapseRuns(s, i) ==
    IF i > Len(s) THEN <<>>
    ELSE LET j == RunEnd(s, i, s[i])
         IN  IF s[i] # "\n" /\ j - i >= 5
             THEN <<s[i], s[i]>> \o CollapseRuns(s, j)
             ELSE <<s[i]>> \o CollapseRuns(s, i + 1)

\* lines 124-125
clean(s) == CollapseRuns(CollapseSpaces(s, 1), 1)

\* variant: max in place of min
target_tokens_Max(original_tokens, mt, cr) ==
    Max(mt, (original_tokens * cr[1]) \div cr[2])

\* line 128: min(max_tokens, int(original_tokens * compression_ratio))
target_tokens(original_tokens, mt, cr) ==
    Min(mt, (original_tokens * cr[1]) \div cr[2])

\* line 135: target_tokens / original_tokens
SummarizeRatio(target, original_tokens) == <<target, original_tokens>>

\* the ratio of a call that never computes one
NoRatio == <<0, 0>>

\* extractive_summarize was not called
NoSummary == [text |-> <<>>, target_ratio |-> NoRatio, sentences |-> <<>>,
              scores |-> <<>>, num_sentences |-> 0, ranked |-> <<>>,
              top_indices |-> <<>>, summary |-> <<>>]

\* variant: the summary is cut to max_chars, as PDFCompressor.compress does
Compressed_Truncated(cleaned, summ, summarized, mt) ==
    IF summarized THEN SubSeq(summ.summary, 1, Min(Len(summ.summary), mt * 4))
    ELSE cleaned

\* lines 130-137: the text compress goes on with
Compressed(cleaned, summ, summarized, mt) ==
    IF summarized THEN summ.summary ELSE cleaned

\* the locals of one call of compress, up to line 139
compress(pgs, mt, cr) ==
    LET extracted  == extract_text(pgs)
        original   == estimate_tokens(extracted)
        cleaned    == clean(extracted)
        target     == target_tokens(original, mt, cr)
        summarized == ~(original <= mt)
        ratio      == SummarizeRatio(target, original)
        summ       == IF summarized THEN extractive_summarize(cleaned, ratio)
                      ELSE NoSummary
        compressed == Compressed(cleaned, summ, summarized, mt)
    IN  [op |-> "compress", extracted |-> extracted,
         original_tokens |-> original, text |-> cleaned,
         target_tokens |-> target, summarized |-> summarized,
         ratio |-> IF summarized THEN ratio ELSE NoRatio,
         summ |-> summ, compressed |-> compressed,
         final_tokens |-> estimate_tokens(compressed)]

(***************************************************************************)
(* The inputs of the model.                                                *)
(***************************************************************************)
Cat == <<"c", "a", "t">>
The == <<"T", "h", "e">>
SevenSp == <<"7", " ">>
DotSp == <<".", " ">>
Bang == <<"!">>
Space == <<" ">>
Newline == <<"\n">>

Vocabulary == {Cat, The, SevenSp, DotSp, Bang, Space, Newline}

\* three sentences, the third repeating the first
CatSatText ==
    <<"T", "h", "e", " ", "c", "a", "t", " ", "s", "a", "t", ".", " ",
      "2", "0", "2", "4", " ", "w", "a", "s", " ", "a", " ", "g", "o",
      "o", "d", " ", "y", "e", "a", "r", ".", " ", "T", "h", "e", " ",
      "c", "a", "t", " ", "s", "a", "t", ".">>

GoodYear ==
    <<"2", "0", "2", "4", " ", "w", "a", "s", " ", "a", " ", "g", "o",
      "o", "d", " ", "y", "e", "a", "r", ".">>

TheCatSat ==
    <<"T", "h", "e", " ", "c", "a", "t", " ", "s", "a", "t", ".">>

\* seven sentences: the fourth has no positional bonus
SevenSentences ==
    <<"c", "a", "t", ".", " ", "T", "h", "e", ".", " ", "T", "h", "e",
      ".", " ", "7", " ", "c", "a", "t", ".", " ", "T", "h", "e", ".",
      " ", "T", "h", "e", ".", " ", "T", "h", "e">>

\* a run of six characters and a run of whitespace
RunsText ==
    <<"c", "a", "t", "!", "!", "!", "!", "!", "!", " ", " ", "c", "a",
      "t", ".">>

RECURSIVE ChunkTexts(_)
\* the texts of at most n chunks
ChunkTexts(n) ==
    IF n = 0 THEN {<<>>}
    ELSE LET shorter == ChunkTexts(n - 1)
         IN  shorter \cup {s \o c : s \in shorter, c \in Vocabulary}

Texts == ChunkTexts(MaxChunks) \cup {CatSatText, SevenSentences, RunsText}

\* the pages of a document: none, one generated page, or one of three longer
\* documents
Documents ==
    {<<>>, <<Cat \o DotSp, Cat>>, <<RunsText>>, <<SevenSentences>>}
        \cup {<<p>> : p \in ChunkTexts(MaxChunks)}

Ratios == {<<k, RatioDen>> : k \in 1..RatioDen}

CompressionRatios == {<<k, CrDen>> : k \in 1..CrDen}

\* __init__'s default max_tokens
DefaultMaxTokens == 100000

\* __init__'s default compression_ratio, 0.5
DefaultCompressionRatio == <<1, 2>>

NoCall == [op |-> "none"]

(***************************************************************************)
(* Direct calls of extractive_summarize on a default compressor.           *)
(***************************************************************************)
InitSummarize ==
    /\ max_tokens = DefaultMaxTokens
    /\ compression_ratio = DefaultCompressionRatio
    /\ pages = <<>>
    /\ text \in Texts
    /\ pc = "idle"
    /\ result = NoCall

ExtractiveSummarize(r) ==
    /\ result' = [op |-> "extractive_summarize", summ |-> extractive_summarize(text, r)]
    /\ pc' = "returned"
    /\ UNCHANGED <<max_tokens, compression_ratio, pages, text>>

NextSummarize == \E r \in Ratios : ExtractiveSummarize(r)

SpecSummarize == InitSummarize /\ [][NextSummarize]_vars

(***************************************************************************)
(* Calls of compress on a compressor built with a small budget.            *)
(***************************************************************************)
InitCompress ==
    /\ max_tokens \in 1..MaxBudget
    /\ compression_ratio \in CompressionRatios
    /\ pages \in Documents
    /\ text = <<>>
    /\ pc = "idle"
    /\ result = NoCall

\* compress(pdf_path) with no output_path; line 140 divides final_tokens by
\* original_tokens and raises ZeroDivisionError when that is 0
Compress ==
    /\ result' = compress(pages, max_tokens, compression_ratio)
    /\ pc' = IF result'.original_tokens = 0 THEN "raised" ELSE "returned"
    /\ UNCHANGED <<max_tokens, compression_ratio, pages, text>>

NextCompress == Compress

SpecCompress == InitCompress /\ [][NextCompress]_vars

(***************************************************************************)
(* Properties.                                                             *)
(***************************************************************************)
Summarized == result.op = "extractive_summarize"

Compressing == result.op = "compress"

\* the sentences a call selected, in the order of its top_indices
Selected(s) == [k \in DOMAIN s.top_indices |-> s.sentences[s.top_indices[k]]]

\* floor(n * r) for a rational r >= 0
FloorOf(n, r) ==
    CHOOSE k \in 0..(n * r[1]) : k * r[2] <= n * r[1] /\ n * r[1] < (k + 1) * r[2]

\* C1: the sentences of the output of extractive_summarize are the selected
\* sentences in document order: the retained indices are strictly increasing
\* in the joined output, whatever order the score-descending sort produced.
C1_OrderPreserved ==
    Summarized =>
        LET s   == result.summ
            top == s.top_indices
        IN  /\ \A k \in DOMAIN top : top[k] \in DOMAIN s.sentences
            /\ \A k \in 1..(Len(top) - 1) : top[k] < top[k + 1]
            /\ Range(top) = {s.ranked[k] : k \in 1..Len(top)}
            /\ s.sentences # <<>> => s.summary = JoinSpace(Selected(s))

\* a call where the score-descending sort put a later sentence first
C1_Witness ==
    /\ Summarized
    /\ Len(result.summ.top_indices) >= 2
    /\ \E k \in 1..(Len(result.summ.top_indices) - 1) :
           result.summ.ranked[k] > result.summ.ranked[k + 1]

\* C2: for a text of n >= 1 sentences and a ratio r in (0,1],
\* extractive_summarize retains exactly max(1, floor(n * r)) distinct
\* sentences, so at least 1 and at most n, also when n * r is below 1.
C2_RetainedCount ==
    (Summarized /\ result.summ.sentences # <<>>) =>
        LET s == result.summ
            n == Len(s.sentences)
        IN  /\ Len(s.top_indices) = Max(1, FloorOf(n, s.target_ratio))
            /\ Cardinality(Range(s.top_indices)) = Len(s.top_indices)
            /\ 1 <= Len(s.top_indices)
            /\ Len(s.top_indices) <= n

\* a call with n * r below 1 that kept one sentence
C2_Witness ==
    /\ Summarized
    /\ result.summ.sentences # <<>>
    /\ Len(result.summ.sentences) * result.summ.target_ratio[1]
           < result.summ.target_ratio[2]
    /\ Len(result.summ.top_indices) = 1

\* C3: the ranking of extractive_summarize is score descending with ties
\* broken by original index ascending: of two sentences with the same score
\* the later one is selected only if the earlier one is.
C3_TieBreak ==
    Summarized =>
        LET s == result.summ
        IN  /\ \A a, b \in DOMAIN s.ranked :
                   a < b =>
                       \/ RatLess(s.scores[s.ranked[b]], s.scores[s.ranked[a]])
                       \/ /\ RatEq(s.scores[s.ranked[a]], s.scores[s.ranked[b]])
                          /\ s.ranked[a] < s.ranked[b]
            /\ \A i, j \in DOMAIN s.sentences :
                   (i < j /\ RatEq(s.scores[i], s.scores[j])
                          /\ j \in Range(s.top_indices))
                       => i \in Range(s.top_indices)

\* two sentences tie for the last slot and the earlier one got it
C3_Witness ==
    /\ Summarized
    /\ \E i, j \in DOMAIN result.summ.sentences :
           /\ i < j
           /\ RatEq(result.summ.scores[i], result.summ.scores[j])
           /\ i = result.summ.ranked[Len(result.summ.top_indices)]
           /\ j \notin Range(result.summ.top_indices)

\* the call of C4: "The cat sat. 2024 was a good year. The cat sat." with a
\* ratio that keeps one sentence
CatSatCall ==
    /\ Summarized
    /\ result.summ.text = CatSatText
    /\ result.summ.num_sentences = 1

\* C4 as claimed: "2024 was a good year." has the highest score and is the
\* sole output.
C4_GoodYearWins ==
    CatSatCall =>
        /\ \A i \in DOMAIN result.summ.scores :
               RatLeq(result.summ.scores[i], result.summ.scores[2])
        /\ result.summ.summary = GoodYear

\* C4, amended: "The cat sat." scores 2.4 (2.0 x 1.2) at both of its
\* positions, "2024 was a good year." scores 1.98 (1.5 x 1.2 x 1.1), and the
\* first "The cat sat." is the sole output.
C4_TheCatSatWins ==
    CatSatCall =>
        /\ result.summ.sentences = <<TheCatSat, GoodYear, TheCatSat>>
        /\ RatEq(result.summ.scores[1], <<24, 10>>)
        /\ RatEq(result.summ.scores[2], <<198, 100>>)
        /\ RatEq(result.summ.scores[3], <<24, 10>>)
        /\ result.summ.top_indices = <<1>>
        /\ result.summ.summary = TheCatSat

C4_Witness == CatSatCall /\ result.summ.summary = TheCatSat

\* C5: for an empty extracted text compress computes original_tokens = 0,
\* returns the empty string and completes normally, without a division by
\* zero.
C5_EmptyCompletes ==
    (Compressing /\ result.extracted = <<>>) =>
        /\ result.original_tokens = 0
        /\ result.compressed = <<>>
        /\ pc = "returned"

\* C6: when the estimated token count of the input is at most max_tokens,
\* compress does not summarize, its text is the normalized input and
\* final_tokens equals original_tokens.
C6_NoOpBelowThreshold ==
    (Compressing /\ result.original_tokens <= max_tokens) =>
        /\ ~result.summarized
        /\ result.compressed = clean(result.extracted)
        /\ result.final_tokens = result.original_tokens

\* C7: for a fixed text and ratios r1 <= r2, extractive_summarize retains at
\* least as many sentences with r2 as with r1.
C7_Monotone ==
    [][(/\ Summarized
        /\ result'.op = "extractive_summarize"
        /\ result'.summ.text = result.summ.text
        /\ RatLeq(result.summ.target_ratio, result'.summ.target_ratio))
           => Len(result.summ.top_indices) <= Len(result'.summ.top_indices)]_vars

\* a call that kept more sentences than a smaller ratio keeps of the same text
C7_Witness ==
    /\ Summarized
    /\ \E r \in Ratios :
           /\ RatLess(r, result.summ.target_ratio)
           /\ num_sentences(Len(result.summ.sentences), r)
                  < Len(result.summ.top_indices)

\* C8: sentence_tokenize of the output of extractive_summarize yields exactly
\* the selected sentences, in the same order and with the same texts.
C8_RoundTrip ==
    Summarized => sentence_tokenize(result.summ.summary) = Selected(result.summ)

\* a selection that skips a sentence and ends with an unterminated one
C8_Witness ==
    /\ Summarized
    /\ Len(result.summ.top_indices) >= 2
    /\ Len(result.summ.top_indices) < Len(result.summ.sentences)
    /\ \E k \in 1..(Len(result.summ.top_indices) - 1) :
           result.summ.top_indices[k + 1] > result.summ.top_indices[k] + 1
    /\ LET last == result.summ.sentences[Len(result.summ.sentences)]
       IN  /\ Len(result.summ.sentences) \in Range(result.summ.top_indices)
           /\ ~IsTerminal(last[Len(last)])

\* C9 as claimed: the ratio compress passes to extractive_summarize
\* satisfies 0 < r <= 1.
C9_RatioPositive ==
    (Compressing /\ result.summarized) =>
        /\ result.ratio[2] > 0
        /\ 0 < result.ratio[1]
        /\ result.ratio[1] <= result.ratio[2]

\* C9, amended: the ratio compress passes to extractive_summarize satisfies
\* 0 <= r <= 1, and it is 0 exactly when
\* floor(original_tokens * compression_ratio) is 0.
C9_RatioInUnitInterval ==
    (Compressing /\ result.summarized) =>
        /\ result.summ.target_ratio = result.ratio
        /\ result.ratio[2] > 0
        /\ 0 <= result.ratio[1]
        /\ result.ratio[1] <= result.ratio[2]
        /\ result.ratio[1] = 0
               <=> result.original_tokens * compression_ratio[1] < compression_ratio[2]

\* compress summarized with the ratio 0
C9_Witness ==
    /\ Compressing
    /\ result.summarized
    /\ result.ratio[1] = 0
    /\ result.summ.target_ratio = result.ratio

\* a one-page document of a single long sentence
LongSentencePages == <<Cat \o Cat \o Cat>>

\* C10: compress takes the summary of its one call of extractive_summarize
\* as it is, and the result can overshoot: for the single-sentence document
\* "catcatcat" and max_tokens = 1 the estimated token count of the result is
\* greater than max_tokens and than target_tokens.
C10_Overshoot ==
    /\ (Compressing /\ result.summarized) =>
           /\ result.compressed = result.summ.summary
           /\ result.final_tokens = estimate_tokens(result.summ.summary)
    /\ (Compressing /\ pages = LongSentencePages /\ max_tokens = 1) =>
           /\ result.summarized
           /\ result.original_tokens > max_tokens
           /\ result.final_tokens > max_tokens
           /\ result.final_tokens > result.target_tokens

C10_Witness ==
    /\ Compressing
    /\ pages = LongSentencePages
    /\ max_tokens = 1
    /\ pc = "returned"
    /\ result.final_tokens > max_tokens

====
